---- MODULE Spec2Model ----
(***************************************************************************)
(* Model of the resume-analysis backend (backend/main.py): the ATS scorer  *)
(* calculate_ats_score_from_affinda, the Affinda parsing call, the Gemini  *)
(* recommendation call, the report writer and the two HTTP handlers        *)
(* analyze_resume and download_file.                                       *)
(*                                                                         *)
(* Numbers: scores are kept in hundredths of a point (Centi) and years of  *)
(* experience in quarters of a year, so that every value the scorer adds   *)
(* is an exact binary fraction and Python's round(x, 1) is the exact       *)
(* round-half-to-even of the decimal value.                                *)
(*                                                                         *)
(* Python values: a dictionary is a record over a fixed set of keys whose  *)
(* values are tagged records [t, n]; t = "absent" marks a missing key,     *)
(* "null" is None, "list"/"str"/"dict" carry their length in n and "num"   *)
(* its value in n (quarters of a year).  Text is a tuple of one-character  *)
(* strings.  A Python exception is the field raised = TRUE of a result.    *)
(***************************************************************************)
EXTENDS Integers, Sequences, FiniteSets, TLC

VARIABLES
    affinda_data,     \* analyze_resume / scorer: the parsed-data dictionary
    score_data,       \* result of calculate_ats_score_from_affinda
    recommendations,  \* result of enhance_resume_with_gemini
    tmpdir,           \* names of the files in tempfile.gettempdir()
    created,          \* number of temporary files created so far
    issued,           \* file names handed out as analysis_report_url
    request,          \* what the last HTTP request was and which services it called
    response          \* the last HTTP response

vars == <<affinda_data, score_data, recommendations, tmpdir, created, issued, request, response>>

-----------------------------------------------------------------------------
(* Bounds of the model *)

MaxEducation == 5
MaxWork == 6
MaxSkills == 11
MaxYearsQ == 21
MaxFiles == 3

-----------------------------------------------------------------------------
(* Python values *)

Absent == [t |-> "absent", n |-> 0]
Null == [t |-> "null", n |-> 0]
List(k) == [t |-> "list", n |-> k]
Str(k) == [t |-> "str", n |-> k]
Dict(k) == [t |-> "dict", n |-> k]
Num(q) == [t |-> "num", n |-> q]

Keys == {"error", "name", "emails", "phoneNumbers", "websites", "education",
         "workExperience", "skills", "summary", "objective", "totalYearsExperience"}

EmptyDict == [k \in Keys |-> Absent]

\* d.get(k): None when the key is missing
Get(d, k) == IF d[k].t = "absent" THEN Null ELSE d[k]

\* d.get(k, default)
GetDefault(d, k, default) == IF d[k].t = "absent" THEN default ELSE d[k]

\* bool(v)
Truthy(v) == CASE v.t \in {"absent", "null"} -> FALSE
               [] v.t = "num" -> v.n # 0
               [] OTHER -> v.n > 0

\* len(v) raises TypeError unless v is sized
LenRaises(v) == v.t \notin {"list", "str", "dict"}

PyLen(v) == v.n

\* v.get(...) raises AttributeError unless v is a dictionary
AttrGetRaises(v) == v.t # "dict"

\* v[0] raises TypeError on None and numbers, IndexError on an empty sequence
FirstRaises(v) == v.t \notin {"list", "str"} \/ v.n = 0

\* v >= 2 raises TypeError unless v is a number
CompareRaises(v) == v.t # "num"

Min(a, b) == IF a < b THEN a ELSE b
Max(a, b) == IF a > b THEN a ELSE b

-----------------------------------------------------------------------------
(* Units *)

Centi(points) == points * 100
QuarterCenti(q) == q * 25

\* round(x, 1) of a non-negative exact value, in hundredths: half to even
RoundNoop(c) == c
Round1(c) ==
    LET q == c \div 10
        r == c % 10
    IN  IF r < 5 THEN q * 10
        ELSE IF r > 5 THEN (q + 1) * 10
        ELSE IF q % 2 = 0 THEN q * 10 ELSE (q + 1) * 10

-----------------------------------------------------------------------------
(* calculate_ats_score_from_affinda *)

BaseScore == 50
EducationPerEntry == 5
EducationCap == 20
WorkPerEntry == 5
WorkCap == 25
SkillCenti == 150
SkillCap == 15
SummaryPoints == 10
ContactPoints == 10
MinYears == 2
YearsCap == 5
DenseSkills == 10
DensePoints == 5
SomeSkills == 5
SomePoints == 2
MaxScore == 100

EducationPointsUncapped(data) ==
    IF Truthy(Get(data, "education"))
    THEN Centi(PyLen(data["education"]) * EducationPerEntry)
    ELSE 0
EducationPoints(data) ==
    IF Truthy(Get(data, "education"))
    THEN Min(Centi(PyLen(data["education"]) * EducationPerEntry), Centi(EducationCap))
    ELSE 0

WorkPoints(data) ==
    IF Truthy(Get(data, "workExperience"))
    THEN Min(Centi(PyLen(data["workExperience"]) * WorkPerEntry), Centi(WorkCap))
    ELSE 0

SkillPoints(data) ==
    IF Truthy(Get(data, "skills"))
    THEN Min(PyLen(data["skills"]) * SkillCenti, Centi(SkillCap))
    ELSE 0

SummaryBonus(data) ==
    IF Truthy(Get(data, "summary")) \/ Truthy(Get(data, "objective"))
    THEN Centi(SummaryPoints) ELSE 0

HasContactInfo(data) ==
    \/ Truthy(Get(data, "emails"))
    \/ Truthy(Get(data, "phoneNumbers"))
    \/ Truthy(Get(data, "websites"))

ContactBonus(data) == IF HasContactInfo(data) THEN Centi(ContactPoints) ELSE 0

ExperienceYears(data) == GetDefault(data, "totalYearsExperience", Num(0))

YearsBonus(data) ==
    LET y == ExperienceYears(data)
    IN  IF QuarterCenti(y.n) >= Centi(MinYears)
        THEN Min(QuarterCenti(y.n), Centi(YearsCap))
        ELSE 0

DensityBonus(data) ==
    LET skills_count == PyLen(GetDefault(data, "skills", List(0)))
    IN  IF skills_count >= DenseSkills THEN Centi(DensePoints)
        ELSE IF skills_count >= SomeSkills THEN Centi(SomePoints)
        ELSE 0

SectionsFound(data) ==
    (IF Truthy(Get(data, "education")) THEN <<"education">> ELSE <<>>)
    \o (IF Truthy(Get(data, "workExperience")) THEN <<"experience">> ELSE <<>>)
    \o (IF Truthy(Get(data, "skills")) THEN <<"skills">> ELSE <<>>)
    \o (IF Truthy(Get(data, "summary")) \/ Truthy(Get(data, "objective"))
        THEN <<"summary">> ELSE <<>>)

\* the statements of the function that raise on a value of the wrong type
ScoreRaises(data) ==
    \/ CompareRaises(ExperienceYears(data))
    \/ LenRaises(GetDefault(data, "skills", List(0)))
    \/ LenRaises(GetDefault(data, "workExperience", List(0)))
    \/ LenRaises(GetDefault(data, "education", List(0)))

ClampScore(c) == Max(0, Min(Centi(MaxScore), Round1(c)))

ScoreFailed ==
    [raised |-> FALSE, score |-> 0, sections_found |-> <<>>,
     has_contact_info |-> FALSE, note |-> "Affinda parsing failed"]

ScoreRaised ==
    [raised |-> TRUE, score |-> 0, sections_found |-> <<>>,
     has_contact_info |-> FALSE, note |-> "exception"]

NotScored ==
    [raised |-> FALSE, score |-> 0, sections_found |-> <<>>,
     has_contact_info |-> FALSE, note |-> "not called"]

calculate_ats_score_from_affinda(data) ==
    IF data["error"].t # "absent" THEN ScoreFailed
    ELSE IF ScoreRaises(data) THEN ScoreRaised
    ELSE [raised |-> FALSE,
          score |-> ClampScore(Centi(BaseScore) + EducationPoints(data)
                               + WorkPoints(data) + SkillPoints(data)
                               + SummaryBonus(data) + ContactBonus(data)
                               + YearsBonus(data) + DensityBonus(data)),
          sections_found |-> SectionsFound(data),
          has_contact_info |-> HasContactInfo(data),
          note |-> "ATS scoring based on Affinda parsed data"]

-----------------------------------------------------------------------------
(* Text: tuples of one-character strings *)

\* the upper-case letters and their lower-case forms
LowerOf ==
    [A |-> "a", B |-> "b", C |-> "c", D |-> "d", E |-> "e", F |-> "f",
     G |-> "g", H |-> "h", I |-> "i", J |-> "j", K |-> "k", L |-> "l",
     M |-> "m", N |-> "n", O |-> "o", P |-> "p", Q |-> "q", R |-> "r",
     S |-> "s", T |-> "t", U |-> "u", V |-> "v", W |-> "w", X |-> "x",
     Y |-> "y", Z |-> "z"]

LowerChar(c) == IF c \in DOMAIN LowerOf THEN LowerOf[c] ELSE c

\* str.lower()
Lower(s) == [i \in 1..Len(s) |-> LowerChar(s[i])]

\* str.endswith(suffix)
EndsWith(s, suffix) ==
    /\ Len(suffix) <= Len(s)
    /\ \A j \in 1..Len(suffix) : s[Len(s) - Len(suffix) + j] = suffix[j]

\* needle in hay
Contains(hay, needle) ==
    \E i \in 1..(Len(hay) - Len(needle) + 1) :
        \A j \in 1..Len(needle) : hay[i + j - 1] = needle[j]

RECURSIVE LStrip(_)
LStrip(s) == IF s # <<>> /\ Head(s) = " " THEN LStrip(Tail(s)) ELSE s

RECURSIVE RStrip(_)
RStrip(s) ==
    IF s # <<>> /\ s[Len(s)] = " " THEN RStrip(SubSeq(s, 1, Len(s) - 1)) ELSE s

\* str.strip()
Strip(s) == RStrip(LStrip(s))

NoText == <<>>
PdfSuffix == <<".", "p", "d", "f">>
TxtSuffix == <<".", "t", "x", "t">>
DigitChars == <<"1", "2", "3", "4", "5", "6", "7", "8", "9">>

\* tempfile.NamedTemporaryFile(delete=False, suffix=...).name, the i-th file created
TmpName(i, suffix) == <<"t", "m", "p", DigitChars[i]>> \o suffix

\* messages of enhance_resume_with_gemini
KeyMissingText ==
    <<"A", "I", " ", "e", "n", "h", "a", "n", "c", "e", "m", "e", "n", "t", " ", "n",
        "o", "t", " ", "a", "v", "a", "i", "l", "a", "b", "l", "e", " ", "-", " ", "G",
        "e", "m", "i", "n", "i", " ", "A", "P", "I", " ", "k", "e", "y", " ", "m", "i",
        "s", "s", "i", "n", "g">>
NoModelText ==
    <<"A", "I", " ", "e", "n", "h", "a", "n", "c", "e", "m", "e", "n", "t", " ", "n",
        "o", "t", " ", "a", "v", "a", "i", "l", "a", "b", "l", "e", " ", "-", " ", "N",
        "o", " ", "w", "o", "r", "k", "i", "n", "g", " ", "G", "e", "m", "i", "n", "i",
        " ", "m", "o", "d", "e", "l", "s", " ", "f", "o", "u", "n", "d">>
FailedPrefix ==
    <<"A", "I", " ", "e", "n", "h", "a", "n", "c", "e", "m", "e", "n", "t", " ", "f",
        "a", "i", "l", "e", "d", ":", " ">>

\* the words analyze_resume looks for in the recommendations
FailedWord == <<"f", "a", "i", "l", "e", "d">>
NotAvailableWord == <<"n", "o", "t", " ", "a", "v", "a", "i", "l", "a", "b", "l", "e">>
ErrorWord == <<"e", "r", "r", "o", "r">>

\* str(e) of the exceptions the environment raises
TimeoutMessage == <<"t", "i", "m", "e", "d", " ", "o", "u", "t">>
AttributeMessage == <<"n", "o", " ", "a", "t", "t", "r", "i", "b", "u", "t", "e", " ",
        "g", "e", "t">>

\* uploads' file names
NameLowerPdf == <<"a", ".", "p", "d", "f">>
NameUpperPdf == <<"A", ".", "P", "D", "F">>
NameTxt == <<"a", ".", "t", "x", "t">>
NameNoDot == <<"p", "d", "f">>
UploadNames == {NameLowerPdf, NameUpperPdf, NameTxt, NameNoDot}

\* a name no temporary file has
NameUnknown == <<"n", "o", "p", "e", ".", "t", "x", "t">>

\* texts a working Gemini model answers with (response.text)
RawAdvice == <<" ", "A", "d", "d", " ", "s", "k", "i", "l", "l", "s", " ">>
RawErrors == <<"F", "i", "x", " ", "s", "p", "e", "l", "l", "i", "n", "g", " ", "E",
        "r", "r", "o", "r", "s">>
RawBlank == <<" ">>
RawTexts == {RawAdvice, RawErrors, RawBlank}

-----------------------------------------------------------------------------
(* The environment of one request: what the external services do *)

ErrorDict == [EmptyDict EXCEPT !["error"] = Str(1)]

\* a complete parse, as the Affinda response is read by main.py
BaseData ==
    [EmptyDict EXCEPT !["name"] = Dict(1), !["emails"] = List(1),
                      !["phoneNumbers"] = List(1), !["education"] = List(2),
                      !["workExperience"] = List(2), !["skills"] = List(6),
                      !["summary"] = Str(1), !["totalYearsExperience"] = Num(13)]

ShapeKeys == {"name", "emails", "phoneNumbers", "education", "workExperience", "skills"}

\* successful parses: complete, empty, and with one field absent, null or empty
HandlerData ==
    {BaseData, EmptyDict, [BaseData EXCEPT !["totalYearsExperience"] = Null]}
    \cup {[BaseData EXCEPT ![k] = v] : k \in ShapeKeys, v \in {Absent, Null, List(0)}}

CreatedStatus == 201
OtherStatuses == {200, 401, 500}

AffindaOk(body) ==
    [key |-> TRUE, opens |-> TRUE, posts |-> TRUE, status |-> CreatedStatus,
     json |-> TRUE, body |-> body]

AffindaEnvs ==
    {[AffindaOk(BaseData) EXCEPT !.key = FALSE],
     [AffindaOk(BaseData) EXCEPT !.opens = FALSE],
     [AffindaOk(BaseData) EXCEPT !.posts = FALSE],
     [AffindaOk(BaseData) EXCEPT !.json = FALSE]}
    \cup {[AffindaOk(BaseData) EXCEPT !.status = st] : st \in OtherStatuses}
    \cup {AffindaOk(d) : d \in HandlerData}

\* possible_models, each "unlisted", "broken" (its test call raises) or "works"
PossibleModels == 4
ModelStates ==
    {<<"unlisted", "unlisted", "unlisted", "unlisted">>,
     <<"broken", "unlisted", "broken", "unlisted">>,
     <<"works", "unlisted", "works", "works">>,
     <<"unlisted", "broken", "works", "unlisted">>}

GeminiOk(text) ==
    [key |-> TRUE, lists |-> TRUE, models |-> <<"works", "unlisted", "works", "works">>,
     generates |-> TRUE, text |-> text]

GeminiEnvs ==
    {[GeminiOk(RawAdvice) EXCEPT !.key = FALSE],
     [GeminiOk(RawAdvice) EXCEPT !.lists = FALSE],
     [GeminiOk(RawAdvice) EXCEPT !.generates = FALSE]}
    \cup {[GeminiOk(RawAdvice) EXCEPT !.models = m] : m \in ModelStates}
    \cup {GeminiOk(t) : t \in RawTexts}

\* every provider outcome with Gemini configured or not, and every Gemini
\* outcome and disk state with the parse complete, failed, or lacking a name
GeminiCore == {GeminiOk(RawAdvice), [GeminiOk(RawAdvice) EXCEPT !.key = FALSE]}
AffindaCore ==
    {AffindaOk(BaseData), [AffindaOk(BaseData) EXCEPT !.key = FALSE],
     AffindaOk([BaseData EXCEPT !["name"] = Null])}

Envs ==
    [affinda : AffindaEnvs, gemini : GeminiCore, disk : {TRUE}]
    \cup [affinda : AffindaCore, gemini : GeminiEnvs, disk : BOOLEAN]

CoreEnvs == [affinda : AffindaCore, gemini : GeminiCore, disk : {TRUE}]

-----------------------------------------------------------------------------
(* parse_resume_with_affinda *)

Returned(v) == [raised |-> FALSE, value |-> v]
Raised(v) == [raised |-> TRUE, value |-> v]

\* the body of the try block: open the file, post it, read the answer
ParseAttempt(env) ==
    IF ~env.opens \/ ~env.posts THEN Raised(ErrorDict)
    ELSE IF env.status = CreatedStatus
         THEN IF env.json THEN Returned(env.body) ELSE Raised(ErrorDict)
         ELSE Returned(ErrorDict)

\* except Exception as e: return {"error": str(e)}
ParseUncaught(attempt) == attempt
ParseExcept(attempt) == IF attempt.raised THEN Returned(ErrorDict) ELSE attempt

parse_resume_with_affinda(env) ==
    IF ~env.key THEN Returned(ErrorDict) ELSE ParseExcept(ParseAttempt(env))

\* what became of the call to the provider
ParseOutcome(env) ==
    IF ~env.key THEN "no_key"
    ELSE IF ~env.opens THEN "open_raised"
    ELSE IF ~env.posts THEN "post_raised"
    ELSE IF env.status # CreatedStatus THEN "bad_status"
    ELSE IF ~env.json THEN "json_raised"
    ELSE "parsed"

-----------------------------------------------------------------------------
(* enhance_resume_with_gemini *)

\* building resume_info raises on these shapes of the parsed data
ResumeInfoRaises(data) ==
    \/ AttrGetRaises(GetDefault(data, "name", Dict(0)))
    \/ Truthy(Get(data, "emails")) /\ FirstRaises(GetDefault(data, "emails", List(1)))
    \/ Truthy(Get(data, "phoneNumbers"))
       /\ FirstRaises(GetDefault(data, "phoneNumbers", List(1)))
    \/ LenRaises(GetDefault(data, "education", List(0)))
    \/ LenRaises(GetDefault(data, "workExperience", List(0)))
    \/ LenRaises(GetDefault(data, "skills", List(0)))

\* the first of possible_models that is listed and answers the test prompt, or 0
WorkingModel(models) ==
    IF \E i \in 1..PossibleModels : models[i] = "works"
    THEN CHOOSE i \in 1..PossibleModels :
            /\ models[i] = "works"
            /\ \A j \in 1..(i - 1) : models[j] # "works"
    ELSE 0

\* result: the text returned and whether a working model generated it
Placeholder(text) == [raised |-> FALSE, text |-> text, generated |-> FALSE]
Generated(text) == [raised |-> FALSE, text |-> text, generated |-> TRUE]

enhance_resume_with_gemini(data, env) ==
    IF ~env.key THEN Placeholder(KeyMissingText)
    ELSE IF ResumeInfoRaises(data) THEN Placeholder(FailedPrefix \o AttributeMessage)
    ELSE IF ~env.lists THEN Placeholder(FailedPrefix \o TimeoutMessage)
    ELSE IF WorkingModel(env.models) = 0 THEN Placeholder(NoModelText)
    ELSE IF ~env.generates THEN Placeholder(FailedPrefix \o TimeoutMessage)
    ELSE Generated(Strip(env.text))

-----------------------------------------------------------------------------
(* save_analysis_report *)

ReportRaises(data) ==
    \/ AttrGetRaises(GetDefault(data, "name", Dict(0)))
    \/ Truthy(Get(data, "emails")) /\ FirstRaises(GetDefault(data, "emails", List(1)))
    \/ LenRaises(GetDefault(data, "education", List(0)))
    \/ LenRaises(GetDefault(data, "skills", List(0)))

\* True when the report was written, False when open() or a write raised
save_analysis_report(data, disk) == disk /\ ~ReportRaises(data)

-----------------------------------------------------------------------------
(* analyze_resume *)

BadRequest == 400
ServerError == 500
Success == 200
NotFound == 404

\* file.filename.lower().endswith('.pdf')
IsPdfNameNoDot(filename) == EndsWith(Lower(filename), <<"p", "d", "f">>)
IsPdfName(filename) == EndsWith(Lower(filename), PdfSuffix)

\* building response_data raises on these shapes of the parsed data
ResponseDataRaises(data) ==
    \/ AttrGetRaises(GetDefault(data, "name", Dict(0)))
    \/ FirstRaises(GetDefault(data, "emails", List(1)))
    \/ FirstRaises(GetDefault(data, "phoneNumbers", List(1)))
    \/ LenRaises(GetDefault(data, "education", List(0)))
    \/ LenRaises(GetDefault(data, "workExperience", List(0)))
    \/ LenRaises(GetDefault(data, "skills", List(0)))

\* the value of "ai_recommendations_available"
RecommendationsAvailable(text) ==
    /\ text # NoText
    /\ ~Contains(Lower(text), FailedWord)
    /\ ~Contains(Lower(text), NotAvailableWord)
    /\ ~Contains(Lower(text), ErrorWord)

NoRequest ==
    [op |-> "none", filename |-> NoText, content_len |-> 0, pdf |-> NoText,
     parse |-> "not_called", parse_raised |-> FALSE, gemini_called |-> FALSE,
     generated |-> FALSE]

NoResponse ==
    [status |-> 0, handled |-> TRUE, error |-> "", has_score |-> FALSE,
     ats_score |-> 0, has_breakdown |-> FALSE, sections_found |-> <<>>,
     has_contact_info |-> FALSE, ai_recommendations_available |-> FALSE,
     analysis_report_url |-> NoText, content |-> NoText, note |-> ""]

ErrorResponse(status, message) ==
    [NoResponse EXCEPT !.status = status, !.error = message]

\* an exception that leaves the handler: the framework answers, not the handler
Unhandled == [NoResponse EXCEPT !.status = ServerError, !.handled = FALSE]

\* except Exception as e: JSONResponse({"error": ...}, status_code=500)
AnalyzeExcept(resp) ==
    IF resp.handled THEN resp ELSE ErrorResponse(ServerError, "Analysis failed")

SuccessResponse(scored, text, url) ==
    [NoResponse EXCEPT !.status = Success, !.has_score = TRUE,
                       !.ats_score = scored.score, !.has_breakdown = TRUE,
                       !.sections_found = scored.sections_found,
                       !.has_contact_info = scored.has_contact_info,
                       !.ai_recommendations_available = RecommendationsAvailable(text),
                       !.analysis_report_url = url, !.note = scored.note]

\* the state after the handler: its locals, the temporary directory, the response
Outcome(data, scored, text, dir, n, urls, req, resp) ==
    [affinda_data |-> data, score_data |-> scored, recommendations |-> text,
     tmpdir |-> dir, created |-> n, issued |-> urls, request |-> req,
     response |-> resp]

\* the calls of the handler that depend on the environment alone
Services(env) ==
    LET parsed == parse_resume_with_affinda(env.affinda)
        scored == calculate_ats_score_from_affinda(parsed.value)
        enhanced == enhance_resume_with_gemini(parsed.value, env.gemini)
    IN  [parsed |-> parsed,
         outcome |-> ParseOutcome(env.affinda),
         scored |-> scored,
         enhanced |-> enhanced,
         saved |-> save_analysis_report(parsed.value, env.disk),
         response_raises |-> ResponseDataRaises(parsed.value),
         success |-> SuccessResponse(scored, enhanced.text, NoText)]

\* The whole handler.  job_description only extends the prompt and is left out;
\* creating the temporary files and os.unlink are taken to succeed, and the
\* entries of the parsed lists to be dictionaries.
analyze_resume(filename, content_len, env, dir, n, urls) ==
    LET pdf == TmpName(n + 1, PdfSuffix)
        txt == TmpName(n + 2, TxtSuffix)
        svc == Services(env)
        parsed == svc.parsed
        data == parsed.value
        scored == svc.scored
        enhanced == svc.enhanced
        saved == svc.saved
        received == [NoRequest EXCEPT !.op = "analyze", !.filename = filename,
                                      !.content_len = content_len]
        stored == [received EXCEPT !.pdf = pdf]
        called == [stored EXCEPT !.parse = svc.outcome,
                                 !.parse_raised = parsed.raised]
        advised == [called EXCEPT !.gemini_called = TRUE,
                                  !.generated = enhanced.generated]
    IN  IF ~IsPdfName(filename)
        THEN Outcome(EmptyDict, NotScored, NoText, dir, n, urls, received,
                     ErrorResponse(BadRequest, "Only PDF files are supported"))
        ELSE IF content_len = 0
        THEN Outcome(EmptyDict, NotScored, NoText, dir \cup {pdf}, n + 1, urls, stored,
                     ErrorResponse(BadRequest, "Uploaded file is empty"))
        ELSE IF parsed.raised
        THEN Outcome(EmptyDict, NotScored, NoText, dir \cup {pdf}, n + 1, urls, called,
                     AnalyzeExcept(Unhandled))
        ELSE IF scored.raised
        THEN Outcome(data, scored, NoText, dir \cup {pdf}, n + 1, urls, called,
                     AnalyzeExcept(Unhandled))
        ELSE IF enhanced.raised
        THEN Outcome(data, scored, NoText, dir \cup {pdf}, n + 1, urls, advised,
                     AnalyzeExcept(Unhandled))
        ELSE IF svc.response_raises
        THEN Outcome(data, scored, enhanced.text, dir \cup {pdf, txt}, n + 2, urls,
                     advised, AnalyzeExcept(Unhandled))
        ELSE Outcome(data, scored, enhanced.text, dir \cup {txt}, n + 2,
                     IF saved THEN urls \cup {txt} ELSE urls, advised,
                     [svc.success EXCEPT
                         !.analysis_report_url = IF saved THEN txt ELSE NoText])

-----------------------------------------------------------------------------
(* download_file *)

download_file(filename, dir) ==
    IF filename \notin dir
    THEN ErrorResponse(NotFound, "File not found or expired")
    ELSE [NoResponse EXCEPT !.status = Success, !.content = filename]

-----------------------------------------------------------------------------
(* The HTTP service *)

ContentLengths == {0, 1}

\* each upload with a few environments, the uploads that reach the services
\* with all of them
ValidNames == {NameLowerPdf, NameUpperPdf}
Uploads ==
    [filename : UploadNames, content_len : ContentLengths, env : CoreEnvs]
    \cup [filename : ValidNames, content_len : ContentLengths \ {0}, env : Envs]

DownloadNames ==
    {TmpName(i, suffix) : i \in 1..MaxFiles, suffix \in {PdfSuffix, TxtSuffix}}
    \cup {NameUnknown}

Init ==
    /\ affinda_data = EmptyDict
    /\ score_data = NotScored
    /\ recommendations = NoText
    /\ tmpdir = {}
    /\ created = 0
    /\ issued = {}
    /\ request = NoRequest
    /\ response = NoResponse

\* POST /analyze_resume/
AnalyzeResume ==
    /\ created + 2 <= MaxFiles
    /\ \E upload \in Uploads :
          LET filename == upload.filename
              content_len == upload.content_len
              env == upload.env
          IN
          LET after == analyze_resume(filename, content_len, env, tmpdir, created, issued)
          IN  /\ affinda_data' = after.affinda_data
              /\ score_data' = after.score_data
              /\ recommendations' = after.recommendations
              /\ tmpdir' = after.tmpdir
              /\ created' = after.created
              /\ issued' = after.issued
              /\ request' = after.request
              /\ response' = after.response

\* GET /download/{filename}
DownloadFile ==
    \E filename \in DownloadNames :
        /\ request' = [NoRequest EXCEPT !.op = "download", !.filename = filename]
        /\ response' = download_file(filename, tmpdir)
        /\ affinda_data' = EmptyDict
        /\ score_data' = NotScored
        /\ recommendations' = NoText
        /\ UNCHANGED <<tmpdir, created, issued>>

Next == AnalyzeResume \/ DownloadFile

Spec == Init /\ [][Next]_vars

-----------------------------------------------------------------------------
(* The scorer alone, over the parsed data it can be given *)

Counts(max) == {Absent} \cup {List(k) : k \in 0..max}
Years == {Absent, Null} \cup {Num(q) : q \in 0..MaxYearsQ}

NoFlags == EmptyDict
AllFlags ==
    [EmptyDict EXCEPT !["summary"] = Str(1), !["objective"] = Str(1),
                      !["emails"] = List(1), !["phoneNumbers"] = List(1),
                      !["websites"] = List(1)]

\* every number of entries and of years, without and with the other sections
CountInputs ==
    {[flags EXCEPT !["education"] = e, !["workExperience"] = w, !["skills"] = k,
                   !["totalYearsExperience"] = y] :
        flags \in {NoFlags, AllFlags}, e \in Counts(MaxEducation),
        w \in Counts(MaxWork), k \in Counts(MaxSkills) \cup {Null}, y \in Years}

\* every combination of the other sections, with few or many entries
FlagInputs ==
    {[EmptyDict EXCEPT !["summary"] = sm, !["objective"] = ob, !["emails"] = em,
                       !["phoneNumbers"] = ph, !["websites"] = wb,
                       !["education"] = e, !["skills"] = k,
                       !["totalYearsExperience"] = y] :
        sm \in {Absent, Str(0), Str(1)}, ob \in {Absent, Str(1)},
        em \in {Absent, List(0), List(1)}, ph \in {Absent, Null, List(1)},
        wb \in {Absent, List(1)}, e \in {Absent, Null, List(MaxEducation)},
        k \in {List(0), List(MaxSkills)}, y \in {Absent, Num(-4), Num(MaxYearsQ)}}

ScoreInputs == CountInputs \cup FlagInputs \cup {ErrorDict}

InitScore ==
    /\ affinda_data \in ScoreInputs
    /\ score_data = NotScored
    /\ recommendations = NoText
    /\ tmpdir = {}
    /\ created = 0
    /\ issued = {}
    /\ request = NoRequest
    /\ response = NoResponse

\* score_data = calculate_ats_score_from_affinda(affinda_data)
ScoreResume ==
    /\ request.op = "none"
    /\ score_data' = calculate_ats_score_from_affinda(affinda_data)
    /\ request' = [NoRequest EXCEPT !.op = "score"]
    /\ UNCHANGED <<affinda_data, recommendations, tmpdir, created, issued, response>>

NextScore == ScoreResume

SpecScore == InitScore /\ [][NextScore]_vars

-----------------------------------------------------------------------------
(* Properties of the scorer (SpecScore) *)

Scored == request.op = "score" /\ ~score_data.raised

\* C1: every score the scorer returns, for data with or without an "error"
\* key, lies between 0 and 100 and has at most one decimal digit (in
\* hundredths: a multiple of 10 between 0 and 10000).
ScoreInRangeOneDecimal ==
    Scored => /\ 0 <= score_data.score
              /\ score_data.score <= 10000
              /\ score_data.score % 10 = 0

\* C1 witness: 2.25 years on top of the base gives 52.25, returned as 52.2
ScoreWasRounded ==
    /\ Scored
    /\ affinda_data["totalYearsExperience"] = Num(9)
    /\ score_data.score = 5220

\* the number of entries of a section: none when the key is absent or empty
Entries(v) == IF v.t = "list" THEN v.n ELSE 0
Present(v) == v.t \in {"list", "str", "dict"} /\ v.n > 0

TermE == Min(500 * Entries(affinda_data["education"]), 2000)
TermW == Min(500 * Entries(affinda_data["workExperience"]), 2500)
TermS == Min(150 * Entries(affinda_data["skills"]), 1500)
TermM ==
    IF Present(affinda_data["summary"]) \/ Present(affinda_data["objective"])
    THEN 1000 ELSE 0
TermC ==
    IF \/ Present(affinda_data["emails"])
       \/ Present(affinda_data["phoneNumbers"])
       \/ Present(affinda_data["websites"])
    THEN 1000 ELSE 0
TermY ==
    LET y == affinda_data["totalYearsExperience"]
    IN  IF y.t = "num" /\ y.n >= 8 THEN Min(25 * y.n, 500) ELSE 0
TermD ==
    LET k == Entries(affinda_data["skills"])
    IN  IF k >= 10 THEN 500 ELSE IF k >= 5 THEN 200 ELSE 0

ExactScore == Min(10000, 5000 + TermE + TermW + TermS + TermM + TermC + TermY + TermD)

NoScoredField ==
    \A k \in Keys \ {"name", "error"} : affinda_data[k].t = "absent"

\* C7: without an "error" key the score is min(100, 50 + E + W + S + M + C + Y + D)
\* rounded to one decimal (a multiple of 0.1 at most 0.05 away), so it is never
\* below 50.0, and data with none of the fields scores exactly 50.0 with no
\* section found and no contact information.
ScoreIsSumOfCappedTerms ==
    (Scored /\ affinda_data["error"].t = "absent") =>
        /\ score_data.score % 10 = 0
        /\ score_data.score - ExactScore <= 5
        /\ ExactScore - score_data.score <= 5
        /\ score_data.score >= 5000
        /\ NoScoredField =>
              /\ score_data.score = 5000
              /\ score_data.sections_found = <<>>
              /\ ~score_data.has_contact_info

\* C7 witness: more entries than the education cap pays for, and a score
\* between the base and the maximum
EducationCapReached ==
    /\ Scored
    /\ affinda_data["error"].t = "absent"
    /\ affinda_data["education"] = List(5)
    /\ score_data.score = 7000

-----------------------------------------------------------------------------
(* Properties of the HTTP service (Spec) *)

Analyzed == request.op = "analyze"

ProviderFailed ==
    request.parse \in {"no_key", "open_raised", "post_raised", "bad_status", "json_raised"}

\* C2: whenever the parsing call fails (no key, the file cannot be opened, the
\* post raises, a status other than 201, an unreadable body),
\* parse_resume_with_affinda returns a dictionary with an "error" key without
\* raising, and the caller gets the handler's own response.
ParseFailureIsReturned ==
    (Analyzed /\ ProviderFailed) =>
        /\ ~request.parse_raised
        /\ affinda_data["error"].t # "absent"
        /\ response.handled

\* C2 witness: the post raised and the request was still answered
PostRaisedAndAnswered ==
    /\ Analyzed
    /\ request.parse = "post_raised"
    /\ affinda_data = ErrorDict
    /\ response.status = 200

\* C3: when the parsing provider fails, the score of the response is the
\* heuristic's, starting from the base 50.0, not a failure marker.
FailureFallsBackToHeuristic ==
    (Analyzed /\ ProviderFailed) =>
        /\ response.has_score
        /\ response.ats_score >= 5000
        /\ response.note # "Affinda parsing failed"

\* C4: an upload whose name does not end in .pdf, or whose content is empty,
\* is answered 400 with a message, and neither the parsing provider nor the
\* text generation is called.
InputErrorIsClientError ==
    (Analyzed /\ (request.filename \in {NameTxt, NameNoDot} \/ request.content_len = 0)) =>
        /\ response.status = 400
        /\ response.error # ""
        /\ request.parse = "not_called"
        /\ ~request.gemini_called

\* C4 witness: a non-empty upload named "pdf" was refused
NameWithoutDotRefused ==
    /\ Analyzed
    /\ request.filename = NameNoDot
    /\ request.content_len > 0
    /\ response.status = 400

\* C5: whenever enhance_resume_with_gemini could not generate text, it
\* returns a placeholder and the request is still answered with a score.
GenerationFailureStillScored ==
    (Analyzed /\ request.gemini_called /\ ~request.generated) =>
        /\ recommendations # NoText
        /\ response.status = 200
        /\ response.has_score

\* C6: every non-empty upload named *.pdf is answered with a score and its
\* breakdown, whatever the parsing provider returned.
PdfUploadIsScored ==
    (Analyzed /\ request.filename \in {NameLowerPdf, NameUpperPdf}
              /\ request.content_len > 0) =>
        /\ response.has_score
        /\ response.has_breakdown

\* C8: when analyze_resume has answered, the temporary PDF it created is gone.
UploadDoesNotOutliveRequest ==
    (Analyzed /\ request.pdf # NoText) => request.pdf \notin tmpdir

\* C9: a download returns content only for a name handed out as
\* analysis_report_url, and answers 404 for every other name.
DownloadOnlyIssuedReports ==
    request.op = "download" =>
        IF request.filename \in issued
        THEN response.status = 200
        ELSE response.status = 404

\* C10: ai_recommendations_available is true exactly when the recommendations
\* were generated by a working model.
AvailableIffGenerated ==
    (Analyzed /\ response.status = 200) =>
        (response.ai_recommendations_available <=> request.generated)

====
